---- MODULE Spec2Model ----
(***************************************************************************)
(* A model of the fake6502 emulation core of marianol/6502Emu.             *)
(*                                                                         *)
(* The repository holds two translation units that define the same API:    *)
(*   src/native/fake6502_old.c  the self-contained simplified core, and    *)
(*   src/native/fake6502.c      the wrapper around fake6502_improved.h.    *)
(* Only one of them is linked into a build; `core` records which.          *)
(* fake6502_improved.h is not part of the sources at hand: what the        *)
(* wrapper calls in it (nmi6502, irq6502, step6502, the register           *)
(* accessors) is modelled from the specification document.                 *)
(*                                                                         *)
(* Bytes are 0..255, addresses 0..65535.  The 64-bit cycle counter is kept *)
(* as four 16-bit limbs, least significant first, so that its full width   *)
(* is representable.                                                       *)
(***************************************************************************)
EXTENDS Integers, Sequences, FiniteSets, TLC

VARIABLES
    core,           \* "old": fake6502_old.c is linked, "new": fake6502.c
    cpu,            \* the architectural state (static cpu / the improved core's statics)
    irq_pending,    \* static int irq_pending
    nmi_pending,    \* static int nmi_pending
    memory_read,    \* static read_func_t memory_read: "NULL" or "bridge"
    memory_write,   \* static write_func_t memory_write: "NULL" or "bridge"
    mem,            \* the host's memory behind the callbacks
    op,             \* the API call made last
    pre,            \* the state a cpu_step / cpu_reset call was entered with
    ret,            \* the value returned by the last call, 0 if it returns nothing
    done,           \* what the last cpu_step performed, in order
    bus,            \* the bus accesses of the last call, in sequence order
    out,            \* the cpu_state_t filled in by the last cpu_get_state call
    given,          \* the cpu_state_t passed to cpu_set_state, if that was the last change
    acct,           \* cycle accounting by the caller since the last cpu_reset
    steps,          \* the number of cpu_step calls made in the explored window
    hosts,          \* the emulator objects the process holds
    caller,         \* the emulator object the last call was made through
    prior           \* the cpu_step call right before the last cpu_step call, if any

vars == <<core, cpu, irq_pending, nmi_pending, memory_read, memory_write, mem,
          op, pre, ret, done, bus, out, given, acct, steps, hosts, caller,
          prior>>

\* ----------------------------------------------------------------- bounds

\* cpu_step is called at most MaxSteps times in a run.
MaxSteps == 2

\* The host passes snapshots (cpu_set_state) only while at most
\* MaxConfigSteps cpu_step calls were made.
MaxConfigSteps == 0

\* --------------------------------------------------------------- constants

FLAG_CARRY     == 1
FLAG_ZERO      == 2
FLAG_INTERRUPT == 4
FLAG_DECIMAL   == 8
FLAG_BREAK     == 16
FLAG_CONSTANT  == 32
FLAG_OVERFLOW  == 64
FLAG_SIGN      == 128

\* what default_read returns
default_read == 255

\* ------------------------------------------------------------ C arithmetic

RECURSIVE BitAnd(_, _)
BitAnd(a, b) ==
    IF a = 0 \/ b = 0 THEN 0
    ELSE ((a % 2) * (b % 2)) + 2 * BitAnd(a \div 2, b \div 2)

BitOr(a, b) == a + b - BitAnd(a, b)

\* ~mask within a uint8_t
Not8(mask) == 255 - mask

U8(v)  == v % 256
U16(v) == v % 65536

\* uint64_t as limbs <<bits 0..15, 16..31, 32..47, 48..63>>
Zero64 == <<0, 0, 0, 0>>

Add64(c, n) ==
    LET s1 == c[1] + n
        s2 == c[2] + (s1 \div 65536)
        s3 == c[3] + (s2 \div 65536)
        s4 == c[4] + (s3 \div 65536)
    IN  <<s1 % 65536, s2 % 65536, s3 % 65536, s4 % 65536>>

\* the conversion uint64_t -> uint32_t (-> uint64_t)
U32(c) == <<c[1], c[2], 0, 0>>

Less64(a, b) ==
    \/ a[4] < b[4]
    \/ a[4] = b[4] /\ a[3] < b[3]
    \/ a[4] = b[4] /\ a[3] = b[3] /\ a[2] < b[2]
    \/ a[4] = b[4] /\ a[3] = b[3] /\ a[2] = b[2] /\ a[1] < b[1]

Leq64(a, b) == a = b \/ Less64(a, b)

\* --------------------------------------------------------- the host memory

\* The host's RAM: the bytes it holds, and the byte every other cell holds.
Peek(m, address) ==
    IF address \in DOMAIN m.ram THEN m.ram[address] ELSE m.fill

Poke(m, address, value) ==
    [m EXCEPT !.ram = [a \in (DOMAIN m.ram) \cup {address} |->
                          IF a = address THEN value ELSE m.ram[a]]]

\* ------------------------------------------------------------ bus accesses

(* A call works on a record m: the cpu, the host memory, the latches, the   *)
(* accesses made so far (bus), the value to return (ret) and what was done  *)
(* (done).  bus is a sequence of sets: accesses that C leaves unsequenced   *)
(* (the two operands of |) share one set.                                   *)

\* read6502 with a default_read that returns 0
read6502_floating(m, address) ==
    IF memory_read # "NULL" THEN Peek(m.mem, address) ELSE 0

\* read6502: the byte a read returns
read6502(m, address) ==
    IF memory_read # "NULL" THEN Peek(m.mem, address) ELSE default_read

\* the record of one read on the bus
ReadAccess(m, address) == <<"R", address, read6502(m, address)>>

Logged(m, accesses) == [m EXCEPT !.bus = Append(@, accesses)]

write6502(m, address, value) ==
    [m EXCEPT !.mem = IF memory_write # "NULL" THEN Poke(@, address, value) ELSE @,
              !.bus = Append(@, {<<"W", address, value>>})]

\* read6502_word: read6502(address) | (read6502(address + 1) << 8)
read6502_word(m, address) ==
    BitOr(read6502(m, address), read6502(m, U16(address + 1)) * 256)

WordAccess(m, address) ==
    {ReadAccess(m, address), ReadAccess(m, U16(address + 1))}

\* push6502 with the stack pointer moved the wrong way
push6502_up(m, value) ==
    LET w == write6502(m, 256 + m.cpu.sp, value)
    IN  [w EXCEPT !.cpu.sp = U8(@ + 1)]

push6502(m, value) ==
    LET w == write6502(m, 256 + m.cpu.sp, value)
    IN  [w EXCEPT !.cpu.sp = U8(@ + 255)]

\* pull6502: the state after the pull, and the byte pulled
pull6502(m) ==
    LET s == [m EXCEPT !.cpu.sp = U8(@ + 1)]
    IN  Logged(s, {ReadAccess(s, 256 + s.cpu.sp)})

pulled(m) == read6502(m, 256 + U8(m.cpu.sp + 1))

\* ----------------------------------------- fake6502_old.c: the simple core

\* cpu_reset of fake6502_old.c
cpu_reset_old(m) ==
    LET z == [pc |-> 0, sp |-> 0, a |-> 0, x |-> 0, y |-> 0, status |-> 0,
              cycles |-> Zero64]
        v == Logged(m, WordAccess(m, 65532))
    IN  [v EXCEPT !.cpu = [z EXCEPT !.sp = 255,
                                   !.status = BitOr(FLAG_CONSTANT, FLAG_INTERRUPT),
                                   !.pc = read6502_word(m, 65532),
                                   !.cycles = Zero64],
                  !.irq = 0,
                  !.nmi = 0]

\* the NMI block without its "nmi_pending = 0"
nmi_service_old_latched(m) ==
    LET p1 == push6502(m, BitAnd(m.cpu.pc \div 256, 255))
        p2 == push6502(p1, BitAnd(m.cpu.pc, 255))
        p3 == push6502(p2, m.cpu.status)
        v  == Logged(p3, WordAccess(p3, 65530))
    IN  [v EXCEPT !.cpu.status = BitOr(@, FLAG_INTERRUPT),
                  !.cpu.pc = read6502_word(p3, 65530),
                  !.cpu.cycles = Add64(@, 7),
                  !.ret = 7,
                  !.done = Append(@, "nmi")]

\* cpu_step of fake6502_old.c, the block under "if (nmi_pending)"
nmi_service_old(m) ==
    LET p1 == push6502(m, BitAnd(m.cpu.pc \div 256, 255))
        p2 == push6502(p1, BitAnd(m.cpu.pc, 255))
        p3 == push6502(p2, m.cpu.status)
        v  == Logged(p3, WordAccess(p3, 65530))
    IN  [v EXCEPT !.cpu.status = BitOr(@, FLAG_INTERRUPT),
                  !.cpu.pc = read6502_word(p3, 65530),
                  !.nmi = 0,
                  !.cpu.cycles = Add64(@, 7),
                  !.ret = 7,
                  !.done = Append(@, "nmi")]

\* cpu_step of fake6502_old.c, the block under "if (irq_pending && ...)"
irq_service_old(m) ==
    LET p1 == push6502(m, BitAnd(m.cpu.pc \div 256, 255))
        p2 == push6502(p1, BitAnd(m.cpu.pc, 255))
        p3 == push6502(p2, m.cpu.status)
        v  == Logged(p3, WordAccess(p3, 65534))
    IN  [v EXCEPT !.cpu.status = BitOr(@, FLAG_INTERRUPT),
                  !.cpu.pc = read6502_word(p3, 65534),
                  !.irq = 0,
                  !.cpu.cycles = Add64(@, 7),
                  !.ret = 7,
                  !.done = Append(@, "irq")]

\* BRK without its "cpu.pc++"
brk_old_no_skip(m) ==
    LET p1 == push6502(m, BitAnd(m.cpu.pc \div 256, 255))
        p2 == push6502(p1, BitAnd(m.cpu.pc, 255))
        p3 == push6502(p2, BitOr(m.cpu.status, FLAG_BREAK))
        v  == Logged(p3, WordAccess(p3, 65534))
    IN  [v EXCEPT !.cpu.status = BitOr(@, FLAG_INTERRUPT),
                  !.cpu.pc = read6502_word(p3, 65534),
                  !.ret = 7]

\* case 0x00: BRK (m.cpu.pc is already past the opcode)
brk_old(m) ==
    LET q  == [m EXCEPT !.cpu.pc = U16(@ + 1)]
        p1 == push6502(q, BitAnd(q.cpu.pc \div 256, 255))
        p2 == push6502(p1, BitAnd(q.cpu.pc, 255))
        p3 == push6502(p2, BitOr(q.cpu.status, FLAG_BREAK))
        v  == Logged(p3, WordAccess(p3, 65534))
    IN  [v EXCEPT !.cpu.status = BitOr(@, FLAG_INTERRUPT),
                  !.cpu.pc = read6502_word(p3, 65534),
                  !.ret = 7]

\* case 0x4C: JMP absolute
jmp_abs_old(m) ==
    [Logged(m, WordAccess(m, m.cpu.pc)) EXCEPT
        !.cpu.pc = read6502_word(m, m.cpu.pc),
        !.ret = 3]

\* JMP indirect without the "(addr & 0xFF) == 0xFF" branch
jmp_ind_old_nowrap(m) ==
    LET addr == read6502_word(m, m.cpu.pc)
        f    == Logged(m, WordAccess(m, m.cpu.pc))
    IN  [Logged(f, WordAccess(f, addr))
            EXCEPT !.cpu.pc = read6502_word(f, addr),
                   !.ret = 5]

\* case 0x6C: JMP indirect
jmp_ind_old(m) ==
    LET addr == read6502_word(m, m.cpu.pc)
        f    == Logged(m, WordAccess(m, m.cpu.pc))
    IN  IF BitAnd(addr, 255) = 255
        THEN [Logged(f, {ReadAccess(f, addr), ReadAccess(f, BitAnd(addr, 65280))})
                 EXCEPT !.cpu.pc = BitOr(read6502(f, addr),
                                         read6502(f, BitAnd(addr, 65280)) * 256),
                        !.ret = 5]
        ELSE [Logged(f, WordAccess(f, addr))
                 EXCEPT !.cpu.pc = read6502_word(f, addr),
                        !.ret = 5]

\* LDA immediate without its "cpu.status &= ~(FLAG_ZERO | FLAG_SIGN)"
lda_imm_old_sticky(m) ==
    LET v  == read6502(m, m.cpu.pc)
        s1 == IF v = 0 THEN BitOr(m.cpu.status, FLAG_ZERO) ELSE m.cpu.status
        s2 == IF BitAnd(v, 128) # 0 THEN BitOr(s1, FLAG_SIGN) ELSE s1
    IN  [Logged(m, {ReadAccess(m, m.cpu.pc)}) EXCEPT
            !.cpu.a = v,
            !.cpu.pc = U16(@ + 1),
            !.cpu.status = s2,
            !.ret = 2]

\* case 0xA9: LDA immediate
lda_imm_old(m) ==
    LET v  == read6502(m, m.cpu.pc)
        s0 == BitAnd(m.cpu.status, Not8(BitOr(FLAG_ZERO, FLAG_SIGN)))
        s1 == IF v = 0 THEN BitOr(s0, FLAG_ZERO) ELSE s0
        s2 == IF BitAnd(v, 128) # 0 THEN BitOr(s1, FLAG_SIGN) ELSE s1
    IN  [Logged(m, {ReadAccess(m, m.cpu.pc)}) EXCEPT
            !.cpu.a = v,
            !.cpu.pc = U16(@ + 1),
            !.cpu.status = s2,
            !.ret = 2]

\* RTI without its "cpu.status = pull6502()"
rti_old_pc_only(m) ==
    LET u1 == pull6502(m)
        u2 == pull6502(u1)
    IN  [u2 EXCEPT !.cpu.pc = BitOr(pulled(m), pulled(u1) * 256),
                   !.ret = 6]

\* case 0x40: RTI
rti_old(m) ==
    LET u1 == pull6502(m)
        u2 == pull6502(u1)
        u3 == pull6502(u2)
        lo == pulled(u1)
        hi == pulled(u2)
    IN  [u3 EXCEPT !.cpu.status = pulled(m),
                   !.cpu.pc = BitOr(lo, hi * 256),
                   !.ret = 6]

\* cpu_step of fake6502_old.c from "Fetch instruction" on
execute_old(m) ==
    LET opcode == read6502(m, m.cpu.pc)
        f == [Logged(m, {ReadAccess(m, m.cpu.pc)}) EXCEPT
                 !.cpu.pc = U16(@ + 1), !.ret = 2]
        e == CASE opcode = 0   -> brk_old(f)
               [] opcode = 76  -> jmp_abs_old(f)
               [] opcode = 108 -> jmp_ind_old(f)
               [] opcode = 169 -> lda_imm_old(f)
               [] opcode = 234 -> [f EXCEPT !.ret = 2]
               [] opcode = 64  -> rti_old(f)
               [] OTHER        -> [f EXCEPT !.ret = 2]
    IN  [e EXCEPT !.cpu.cycles = Add64(@, e.ret),
                  !.done = Append(@, "instr")]

\* cpu_step with the IRQ test placed before the NMI test
cpu_step_old_irq_first(m) ==
    IF m.irq # 0 /\ BitAnd(m.cpu.status, FLAG_INTERRUPT) = 0
    THEN irq_service_old(m)
    ELSE IF m.nmi # 0 THEN nmi_service_old(m)
         ELSE execute_old(m)

\* cpu_step with the NMI block's "return 7" missing
cpu_step_old_fallthrough(m) ==
    LET n == IF m.nmi # 0 THEN nmi_service_old(m) ELSE m
    IN  IF n.irq # 0 /\ BitAnd(n.cpu.status, FLAG_INTERRUPT) = 0
        THEN irq_service_old(n)
        ELSE execute_old(n)

\* cpu_step of fake6502_old.c
cpu_step_old(m) ==
    IF m.nmi # 0 THEN nmi_service_old(m)
    ELSE IF m.irq # 0 /\ BitAnd(m.cpu.status, FLAG_INTERRUPT) = 0
         THEN irq_service_old(m)
         ELSE execute_old(m)

\* cpu_get_state / cpu_set_state of fake6502_old.c: struct copies
cpu_get_state_old(m) == m.cpu

cpu_set_state_old(m, state) == [m EXCEPT !.cpu = state]

\* ------------------------- fake6502_improved.h, from the specification text

\* pushes and pulls of the improved core: 0x0100 + sp, sp wraps modulo 256
push8(m, value) ==
    LET w == write6502(m, 256 + m.cpu.sp, value)
    IN  [w EXCEPT !.cpu.sp = U8(@ + 255)]

pull8(m) ==
    LET s == [m EXCEPT !.cpu.sp = U8(@ + 1)]
    IN  Logged(s, {ReadAccess(s, 256 + s.cpu.sp)})

\* a vector or operand word: low byte, then high byte
Fetch16(m, address) ==
    Logged(Logged(m, {ReadAccess(m, address)}), {ReadAccess(m, U16(address + 1))})

Word16(m, address) == read6502(m, address) + 256 * read6502(m, U16(address + 1))

\* the service sequence of section 4.6: PC high, PC low, status with Break
\* clear; InterruptDisable set; pc from the vector; 7 cycles
Service6502(m, vector) ==
    LET p1 == push8(m, m.cpu.pc \div 256)
        p2 == push8(p1, m.cpu.pc % 256)
        p3 == push8(p2, BitAnd(m.cpu.status, Not8(FLAG_BREAK)))
        v  == Fetch16(p3, vector)
    IN  [v EXCEPT !.cpu.status = BitOr(BitOr(@, FLAG_INTERRUPT), FLAG_CONSTANT),
                  !.cpu.pc = Word16(p3, vector),
                  !.cpu.cycles = U32(Add64(@, 7))]

nmi6502(m) == Service6502(m, 65530)

irq6502(m) == Service6502(m, 65534)

\* loads: Z iff the byte is 0, N iff its bit 7 is 1, bit 5 forced
LoadFlags(status, v) ==
    LET s0 == BitAnd(status, Not8(BitOr(FLAG_ZERO, FLAG_SIGN)))
        s1 == IF v = 0 THEN BitOr(s0, FLAG_ZERO) ELSE s0
        s2 == IF v >= 128 THEN BitOr(s1, FLAG_SIGN) ELSE s1
    IN  BitOr(s2, FLAG_CONSTANT)

\* step6502: one instruction of the improved core; ticks is what it returns
step6502(m) ==
    LET opcode == read6502(m, m.cpu.pc)
        f  == [Logged(m, {ReadAccess(m, m.cpu.pc)}) EXCEPT !.cpu.pc = U16(@ + 1)]
        pc == f.cpu.pc
        operand == Word16(f, pc)
        g  == [Fetch16(f, pc) EXCEPT !.cpu.pc = U16(@ + 2)]
        e  ==
          CASE opcode = 169 ->
                 [m |-> [Logged(f, {ReadAccess(f, pc)}) EXCEPT
                            !.cpu.a = read6502(f, pc),
                            !.cpu.pc = U16(@ + 1),
                            !.cpu.status = LoadFlags(@, read6502(f, pc))],
                  ticks |-> 2]
            [] opcode = 173 ->
                 [m |-> [Logged(g, {ReadAccess(g, operand)}) EXCEPT
                            !.cpu.a = read6502(g, operand),
                            !.cpu.status = LoadFlags(@, read6502(g, operand))],
                  ticks |-> 4]
            [] opcode = 189 ->
                 LET ea == U16(operand + f.cpu.x)
                 IN  [m |-> [Logged(g, {ReadAccess(g, ea)}) EXCEPT
                                !.cpu.a = read6502(g, ea),
                                !.cpu.status = LoadFlags(@, read6502(g, ea))],
                      ticks |-> IF ea \div 256 # operand \div 256 THEN 5 ELSE 4]
            [] opcode = 0 ->
                 LET q  == [f EXCEPT !.cpu.pc = U16(@ + 1)]
                     p1 == push8(q, q.cpu.pc \div 256)
                     p2 == push8(p1, q.cpu.pc % 256)
                     p3 == push8(p2, BitOr(BitOr(q.cpu.status, FLAG_BREAK), FLAG_CONSTANT))
                 IN  [m |-> [Fetch16(p3, 65534) EXCEPT
                                !.cpu.status = BitOr(BitOr(@, FLAG_INTERRUPT), FLAG_CONSTANT),
                                !.cpu.pc = Word16(p3, 65534)],
                      ticks |-> 7]
            [] opcode = 64 ->
                 LET u1 == pull8(f)
                     u2 == pull8(u1)
                     u3 == pull8(u2)
                 IN  [m |-> [u3 EXCEPT
                                !.cpu.status = BitOr(read6502(u1, 256 + u1.cpu.sp), FLAG_CONSTANT),
                                !.cpu.pc = read6502(u2, 256 + u2.cpu.sp)
                                           + 256 * read6502(u3, 256 + u3.cpu.sp)],
                      ticks |-> 6]
            [] opcode = 76 ->
                 [m |-> [g EXCEPT !.cpu.pc = operand], ticks |-> 3]
            [] opcode = 108 ->
                 LET hiaddr == IF operand % 256 = 255 THEN operand - 255
                               ELSE U16(operand + 1)
                 IN  [m |-> [Logged(Logged(g, {ReadAccess(g, operand)}),
                                    {ReadAccess(g, hiaddr)}) EXCEPT
                                !.cpu.pc = read6502(g, operand) + 256 * read6502(g, hiaddr)],
                      ticks |-> 5]
            [] OTHER ->
                 [m |-> f, ticks |-> 2]
    IN  [m |-> [e.m EXCEPT !.cpu.cycles = U32(Add64(@, e.ticks))],
         ticks |-> e.ticks]

\* ----------------------------------------------- fake6502.c: the wrapper

\* cpu_reset of fake6502.c
cpu_reset_new(m) ==
    [m EXCEPT !.cpu = [pc |-> 0, sp |-> 253, a |-> 0, x |-> 0, y |-> 0,
                       status |-> BitOr(32, 4), cycles |-> U32(Zero64)],
              !.irq = 0,
              !.nmi = 0]

\* cpu_step of fake6502.c
cpu_step_new(m) ==
    IF m.nmi # 0
    THEN [nmi6502(m) EXCEPT !.nmi = 0, !.ret = 7, !.done = Append(@, "nmi")]
    ELSE IF m.irq # 0
         THEN [irq6502(m) EXCEPT !.irq = 0, !.ret = 7, !.done = Append(@, "irq")]
         ELSE LET r == step6502(m)
              IN  [r.m EXCEPT !.ret = U8(r.ticks), !.done = Append(@, "instr")]

\* cpu_get_state of fake6502.c: get_cycles_6502 returns a uint32_t
cpu_get_state_new(m) == [m.cpu EXCEPT !.cycles = U32(@)]

\* cpu_set_state of fake6502.c: set_cycles_6502 takes a uint32_t
cpu_set_state_new(m, state) == [m EXCEPT !.cpu = [state EXCEPT !.cycles = U32(@)]]

\* ------------------------------------------------------- the host's inputs

Bytes(base, s) == [a \in base .. (base + Len(s) - 1) |-> s[a - base + 1]]

(* The program the host loads at 0x0200:                                    *)
(*   0200 A9 42     LDA #$42        020D 6C FF 03  JMP ($03FF)              *)
(*   0202 AD 10 03  LDA $0310       0210 6C 10 03  JMP ($0310)              *)
(*   0205 BD F0 03  LDA $03F0,X     0213 02        (not an instruction)     *)
(*   0208 00 00     BRK             0214 EA        NOP                      *)
(*   020A 4C 00 03  JMP $0300       0215 40        RTI                      *)
(*   0216 A9 00     LDA #$00        0218 A9 80     LDA #$80                 *)
Program ==
    Bytes(512, <<169, 66, 173, 16, 3, 189, 240, 3, 0, 0, 76, 0, 3,
                 108, 255, 3, 108, 16, 3, 2, 234, 64, 169, 0, 169, 128>>)

\* 0300 RTI (the NMI handler), 0310 a pointer to 0x0200, 03F2 / 03FF data,
\* 0400 LDA #$00; RTI (the IRQ handler), 0410 data
Data ==
    Bytes(768, <<64>>) @@ Bytes(784, <<0, 2>>) @@ Bytes(1010, <<128>>)
    @@ Bytes(1023, <<20, 169, 0, 64>>) @@ Bytes(1040, <<0>>)

\* Stack cells an RTI finds: at 0100 (status 0x00, pc 0x0200) and at 01FD
\* (status 0x10, pc 0x0214)
Stack == Bytes(256, <<0, 0, 2>>) @@ Bytes(509, <<16, 20, 2>>)

\* Memory images: NMI, RESET and IRQ vectors at FFFA..FFFF
Images ==
    { [fill |-> 234,
       ram  |-> Program @@ Data @@ Stack @@ Bytes(65530, <<0, 3, 0, 2, 0, 4>>)],
      [fill |-> 0,
       ram  |-> Program @@ Data @@ Stack @@ Bytes(65530, <<21, 2, 21, 2, 21, 2>>)] }

\* cpu_state_t values the host passes to cpu_set_state
StateInputs ==
    { [pc |-> p, sp |-> 253, a |-> 17, x |-> 2, y |-> 51, status |-> 36,
       cycles |-> Zero64] :
         p \in {512, 514, 517, 522, 525, 528, 531, 532, 65535} }
    \cup
    { [pc |-> ps[1], sp |-> ps[2], a |-> 17, x |-> 32, y |-> 51,
       status |-> ps[3], cycles |-> ps[4]] :
         ps \in { <<517, 2, 32, <<7, 0, 0, 0>> >>,
                  <<520, 1, 52, <<65535, 65535, 0, 0>> >>,
                  <<520, 252, 251, <<65535, 65535, 65535, 65535>> >>,
                  <<533, 255, 0, <<0, 0, 1, 0>> >>,
                  <<533, 1, 52, Zero64>>,
                  <<533, 252, 251, Zero64>> } }

Callbacks == {"NULL", "bridge"}

\* ------------------------------------------------------------------- state

ZeroState == [pc |-> 0, sp |-> 0, a |-> 0, x |-> 0, y |-> 0, status |-> 0,
              cycles |-> Zero64]

\* pre, out and given when the last call left nothing to keep there
NoEntry == [cpu |-> ZeroState, irq |-> 0, nmi |-> 0]

NoState == [filled |-> FALSE, state |-> ZeroState]

\* prior when the call before the last one was not a cpu_step
NoPrior == [valid |-> FALSE, cpu |-> ZeroState, done |-> <<>>, bus |-> <<>>]

\* the record a call works on
M == [cpu |-> cpu, mem |-> mem, irq |-> irq_pending, nmi |-> nmi_pending,
      bus |-> <<>>, ret |-> 0, done |-> <<>>]

Entry == [cpu |-> cpu, irq |-> irq_pending, nmi |-> nmi_pending]

Init ==
    /\ core \in {"old", "new"}
    /\ cpu = ZeroState
    /\ irq_pending = 0
    /\ nmi_pending = 0
    /\ memory_read = "NULL"
    /\ memory_write = "NULL"
    /\ mem \in Images
    /\ op = "init"
    /\ pre = NoEntry
    /\ ret = 0
    /\ done = <<>>
    /\ bus = <<>>
    /\ out = NoState
    /\ given = NoState
    /\ acct = [valid |-> FALSE, sum |-> Zero64]
    /\ steps = 0
    /\ hosts = {"A"}
    /\ caller = "none"
    /\ prior = NoPrior

Configuring == steps <= MaxConfigSteps

\* what a call that returns nothing and touches no bus leaves behind
Quiet ==
    /\ op' = "other"
    /\ pre' = NoEntry
    /\ ret' = 0
    /\ done' = <<>>
    /\ bus' = <<>>
    /\ out' = NoState

cpu_reset ==
    LET r == IF core = "old" THEN cpu_reset_old(M) ELSE cpu_reset_new(M)
    IN  /\ cpu' = r.cpu
        /\ irq_pending' = r.irq
        /\ nmi_pending' = r.nmi
        /\ mem' = r.mem
        /\ op' = "reset"
        /\ pre' = Entry
        /\ ret' = 0
        /\ done' = <<>>
        /\ bus' = r.bus
        /\ out' = NoState
        /\ given' = NoState
        /\ acct' = [valid |-> TRUE, sum |-> Zero64]
        /\ prior' = NoPrior
        /\ caller' \in hosts
        /\ UNCHANGED <<hosts, core, memory_read, memory_write, steps>>

cpu_step ==
    /\ steps < MaxSteps
    /\ LET r == IF core = "old" THEN cpu_step_old(M) ELSE cpu_step_new(M)
       IN  /\ cpu' = r.cpu
           /\ irq_pending' = r.irq
           /\ nmi_pending' = r.nmi
           /\ mem' = r.mem
           /\ op' = "step"
           /\ pre' = Entry
           /\ ret' = r.ret
           /\ done' = r.done
           /\ bus' = r.bus
           /\ out' = NoState
           /\ given' = NoState
           /\ acct' = IF acct.valid THEN [acct EXCEPT !.sum = Add64(@, r.ret)]
                       ELSE acct
    /\ steps' = steps + 1
    /\ prior' = IF op = "step"
                 THEN [valid |-> TRUE, cpu |-> pre.cpu, done |-> done,
                       bus |-> bus]
                 ELSE NoPrior
    /\ caller' \in hosts
    /\ UNCHANGED <<hosts, core, memory_read, memory_write>>

cpu_get_state ==
    \/ /\ out' = [filled |-> TRUE,
                  state  |-> IF core = "old" THEN cpu_get_state_old(M)
                             ELSE cpu_get_state_new(M)]
       /\ op' = "other"
       /\ pre' = NoEntry
       /\ ret' = 0
       /\ done' = <<>>
       /\ bus' = <<>>
       /\ prior' = NoPrior
       /\ caller' \in hosts
       /\ UNCHANGED <<hosts, core, cpu, irq_pending, nmi_pending, memory_read,
                      memory_write, mem, given, acct, steps>>
    \/ \* cpu_get_state(NULL)
       /\ Quiet
       /\ prior' = NoPrior
       /\ caller' \in hosts
       /\ UNCHANGED <<hosts, core, cpu, irq_pending, nmi_pending, memory_read,
                      memory_write, mem, given, acct, steps>>

cpu_set_state ==
    \/ /\ Configuring
       /\ \E state \in StateInputs :
            /\ cpu' = IF core = "old" THEN cpu_set_state_old(M, state).cpu
                      ELSE cpu_set_state_new(M, state).cpu
            /\ given' = [filled |-> TRUE, state |-> state]
       /\ acct' = [valid |-> FALSE, sum |-> Zero64]
       /\ Quiet
       /\ prior' = NoPrior
       /\ caller' \in hosts
       /\ UNCHANGED <<hosts, core, irq_pending, nmi_pending, memory_read,
                      memory_write, mem, steps>>
    \/ \* cpu_set_state(NULL)
       /\ Quiet
       /\ prior' = NoPrior
       /\ caller' \in hosts
       /\ UNCHANGED <<hosts, core, cpu, irq_pending, nmi_pending, memory_read,
                      memory_write, mem, given, acct, steps>>

\* The host attaches its callbacks before the first step, as
\* SetMemoryCallbacks of fake6502_addon.cc does at start-up.
cpu_set_memory_callbacks ==
    \E read_func \in Callbacks, write_func \in Callbacks :
        /\ steps = 0
        /\ memory_read' = read_func
        /\ memory_write' = write_func
        /\ Quiet
        /\ prior' = NoPrior
        /\ caller' \in hosts
        /\ UNCHANGED <<hosts, core, cpu, irq_pending, nmi_pending, mem, given, acct,
                       steps>>

cpu_trigger_irq ==
    /\ irq_pending' = 1
    /\ Quiet
    /\ prior' = NoPrior
    /\ caller' \in hosts
    /\ UNCHANGED <<hosts, core, cpu, nmi_pending, memory_read, memory_write, mem,
                   given, acct, steps>>

cpu_trigger_nmi ==
    /\ nmi_pending' = 1
    /\ Quiet
    /\ prior' = NoPrior
    /\ caller' \in hosts
    /\ UNCHANGED <<hosts, core, cpu, irq_pending, memory_read, memory_write, mem,
                   given, acct, steps>>

\* cpu_clear_irq clearing nmi_pending as well
cpu_clear_irq_both ==
    /\ irq_pending' = 0
    /\ nmi_pending' = 0
    /\ Quiet
    /\ prior' = NoPrior
    /\ caller' \in hosts
    /\ UNCHANGED <<hosts, core, cpu, memory_read, memory_write, mem,
                   given, acct, steps>>

cpu_clear_irq ==
    /\ irq_pending' = 0
    /\ Quiet
    /\ prior' = NoPrior
    /\ caller' \in hosts
    /\ UNCHANGED <<hosts, core, cpu, nmi_pending, memory_read, memory_write, mem,
                   given, acct, steps>>

cpu_is_irq_pending ==
    /\ op' = "other"
    /\ pre' = NoEntry
    /\ ret' = irq_pending
    /\ done' = <<>>
    /\ bus' = <<>>
    /\ out' = NoState
    /\ prior' = NoPrior
    /\ caller' \in hosts
    /\ UNCHANGED <<hosts, core, cpu, irq_pending, nmi_pending, memory_read,
                   memory_write, mem, given, acct, steps>>

cpu_is_nmi_pending ==
    /\ op' = "other"
    /\ pre' = NoEntry
    /\ ret' = nmi_pending
    /\ done' = <<>>
    /\ bus' = <<>>
    /\ out' = NoState
    /\ prior' = NoPrior
    /\ caller' \in hosts
    /\ UNCHANGED <<hosts, core, cpu, irq_pending, nmi_pending, memory_read,
                   memory_write, mem, given, acct, steps>>

Next ==
    \/ cpu_reset
    \/ cpu_step
    \/ cpu_get_state
    \/ cpu_set_state
    \/ cpu_set_memory_callbacks
    \/ cpu_trigger_irq
    \/ cpu_trigger_nmi
    \/ cpu_clear_irq
    \/ cpu_is_irq_pending
    \/ cpu_is_nmi_pending

Spec == Init /\ [][Next]_vars

\* A long session: cpu_reset with no callbacks attached, then 2^31 - 1 calls
\* of cpu_step with no trigger between them.  Each of those steps fetches
\* default_read's 0xFF, which neither core decodes as one of its opcodes: it
\* advances pc by one and takes 2 cycles, so pc has moved by 65535 (mod 2^16)
\* and cycles stands at 2^32 - 2.
LongSession(r) ==
    [r.cpu EXCEPT !.pc = U16(@ + 65535), !.cycles = <<65534, 65535, 0, 0>>]

InitLong ==
    /\ core \in {"old", "new"}
    /\ mem \in Images
    /\ memory_read = "NULL"
    /\ memory_write = "NULL"
    /\ LET m == [cpu |-> ZeroState, mem |-> mem, irq |-> 0, nmi |-> 0,
                 bus |-> <<>>, ret |-> 0, done |-> <<>>]
       IN  cpu = LongSession(IF core = "old" THEN cpu_reset_old(m)
                             ELSE cpu_reset_new(m))
    /\ irq_pending = 0
    /\ nmi_pending = 0
    /\ op = "other"
    /\ pre = NoEntry
    /\ ret = 0
    /\ done = <<>>
    /\ bus = <<>>
    /\ out = NoState
    /\ given = NoState
    /\ acct = [valid |-> TRUE, sum |-> <<65534, 65535, 0, 0>>]
    /\ steps = 0
    /\ hosts = {"A"}
    /\ caller = "A"
    /\ prior = NoPrior

SpecLong == InitLong /\ [][Next]_vars

\* A process that holds two emulator objects.  The API takes no instance
\* argument and the state is in file-scope statics, so both objects call the
\* same functions on the same cpu, latches and callbacks.
InitShared ==
    /\ core \in {"old", "new"}
    /\ cpu = ZeroState
    /\ irq_pending = 0
    /\ nmi_pending = 0
    /\ memory_read = "NULL"
    /\ memory_write = "NULL"
    /\ mem \in Images
    /\ op = "init"
    /\ pre = NoEntry
    /\ ret = 0
    /\ done = <<>>
    /\ bus = <<>>
    /\ out = NoState
    /\ given = NoState
    /\ acct = [valid |-> FALSE, sum |-> Zero64]
    /\ steps = 0
    /\ hosts = {"A", "B"}
    /\ caller = "none"
    /\ prior = NoPrior

SpecShared == InitShared /\ [][Next]_vars

\* ------------------------------------------------------------------ claims

Flag(status, flag) == BitAnd(status, flag) # 0

\* the last call was a cpu_step that serviced an interrupt / ran an instruction
Serviced == op = "step" /\ Len(done) >= 1 /\ done[1] \in {"nmi", "irq"}

Executed == op = "step" /\ Len(done) >= 1 /\ done[1] = "instr"

\* the single access of the i-th entry of the bus log
Access(i) == CHOOSE a \in bus[i] : TRUE

\* the word the bus holds at a vector, as a read now returns it
Vector(address) == read6502_word(M, address)

\* C1: cpu_reset always yields sp=0xFD, status=0x24, cycles=0 and pc equal to
\* the little-endian word read from the bus at 0xFFFC/0xFFFD.
C1_ResetState ==
    op = "reset" =>
        /\ cpu.sp = 253
        /\ cpu.status = 36
        /\ cpu.cycles = Zero64
        /\ cpu.pc = Vector(65532)

\* C2: with both latches set, cpu_step services the NMI (pc from 0xFFFA/B),
\* clears only nmi_pending and leaves irq_pending set; no IRQ in that step.
C2_NmiFirst ==
    (op = "step" /\ pre.nmi # 0 /\ pre.irq # 0) =>
        /\ done = <<"nmi">>
        /\ cpu.pc = Vector(65530)
        /\ nmi_pending = 0
        /\ irq_pending = pre.irq

C2_Witness ==
    /\ op = "step" /\ pre.nmi # 0 /\ pre.irq # 0
    /\ ~Flag(pre.cpu.status, FLAG_INTERRUPT)
    /\ memory_read = "bridge"
    /\ done = <<"nmi">>

\* C3: with irq_pending set, nmi_pending clear and InterruptDisable set,
\* cpu_step executes an instruction and leaves irq_pending set; with
\* InterruptDisable clear (and no NMI) it services the IRQ: latch cleared,
\* 7 cycles, pc from 0xFFFE/F.
C3_IrqMasked ==
    (op = "step" /\ pre.irq # 0 /\ pre.nmi = 0) =>
        IF Flag(pre.cpu.status, FLAG_INTERRUPT)
        THEN done = <<"instr">> /\ irq_pending = pre.irq
        ELSE /\ done = <<"irq">>
             /\ irq_pending = 0
             /\ ret = 7
             /\ cpu.pc = Vector(65534)
\* C4: servicing an NMI or IRQ writes the PC high byte at 0x0100+sp, the PC
\* low byte at 0x0100+((sp-1) mod 256) and the status byte at
\* 0x0100+((sp-2) mod 256), leaves sp decreased by 3 modulo 256, sets
\* InterruptDisable, loads pc from 0xFFFA/B (NMI) or 0xFFFE/F (IRQ) and leaves
\* a, x and y unchanged.  (Which Break bit the status byte carries is C5.)
C4_ServiceSequence ==
    Serviced =>
        LET sp0 == pre.cpu.sp
            pc0 == pre.cpu.pc
            a1  == 256 + sp0
            a2  == 256 + ((sp0 + 255) % 256)
            a3  == 256 + ((sp0 + 254) % 256)
        IN  /\ Len(bus) >= 3
            /\ bus[1] = {<<"W", a1, pc0 \div 256>>}
            /\ bus[2] = {<<"W", a2, pc0 % 256>>}
            /\ LET v == Access(3)[3]
               IN  /\ bus[3] = {<<"W", a3, v>>}
                   /\ BitAnd(v, Not8(FLAG_BREAK))
                        = BitAnd(pre.cpu.status, Not8(FLAG_BREAK))
                   /\ memory_write = "bridge" =>
                        /\ Peek(mem, a1) = pc0 \div 256
                        /\ Peek(mem, a2) = pc0 % 256
                        /\ Peek(mem, a3) = v
            /\ cpu.sp = (sp0 + 253) % 256
            /\ Flag(cpu.status, FLAG_INTERRUPT)
            /\ cpu.pc = Vector(IF done[1] = "nmi" THEN 65530 ELSE 65534)
            /\ cpu.a = pre.cpu.a
            /\ cpu.x = pre.cpu.x
            /\ cpu.y = pre.cpu.y

\* a service whose pushes wrap around the bottom of the stack page
C4_Witness ==
    /\ Serviced
    /\ done[1] = "irq"
    /\ pre.cpu.sp = 1
    /\ cpu.sp = 254
    /\ memory_write = "bridge"
    /\ memory_read = "bridge"

\* C5: the status byte pushed by NMI or IRQ service has the Break flag
\* (bit 4) clear, whatever status was held before the service.
C5_PushedBreakClear ==
    Serviced =>
        /\ Len(bus) >= 3
        /\ \A w \in bus[3] : w[1] = "W" /\ ~Flag(w[3], FLAG_BREAK)

\* what one cpu_step call did and returned
StepShape(r) ==
    /\ Len(r.done) = 1
    /\ r.done[1] \in {"nmi", "irq", "instr"}
    /\ r.done[1] \in {"nmi", "irq"} => r.ret = 7
    /\ r.done[1] = "instr" => r.ret \in 2..8

\* C6: every cpu_step performs exactly one of {service NMI, service IRQ,
\* execute one instruction}; it returns 7 for a service and a value in 2..8
\* for an instruction, for every opcode byte at pc (tried at every snapshot
\* the host installs, with the callbacks attached).
C6_OneOfThree ==
    /\ op = "step" => StepShape([done |-> done, ret |-> ret])
    /\ (given.filled /\ steps = 0 /\ op = "other" /\ memory_read = "bridge"
          /\ memory_write = "bridge" /\ nmi_pending = 0) =>
         \A opcode \in 0..255 :
            LET m == [M EXCEPT !.mem = Poke(mem, cpu.pc, opcode)]
            IN  StepShape(IF core = "old" THEN cpu_step_old(m)
                          ELSE cpu_step_new(m))

C6_Witness ==
    /\ core = "old"
    /\ Executed
    /\ memory_read = "bridge"
    /\ Access(1)[3] = 0
    /\ ret = 7

\* C7: after cpu_reset, over cpu_step calls interleaved with trigger and
\* clear calls (no cpu_set_state), the cycles field cpu_get_state returns
\* never decreases and equals the sum of the values cpu_step returned.
C7_CyclesAccount ==
    acct.valid =>
        LET now == IF core = "old" THEN cpu_get_state_old(M).cycles
                   ELSE cpu_get_state_new(M).cycles
        IN  /\ now = acct.sum
            /\ op = "step" => Leq64(pre.cpu.cycles, now)

\* C8: cpu_set_state(s) followed by cpu_get_state() returns exactly s, for
\* every field value, cycles over the full 64-bit range included.
C8_RoundTrip ==
    (given.filled /\ out.filled) => out.state = given.state

\* C9: status bit 5 reads as 1 in every state reachable from cpu_reset by
\* step, trigger and clear calls, and every step that writes the status
\* register (LDA #imm, BRK, RTI, interrupt service) leaves bit 5 set, even
\* when cpu_set_state had cleared it.
C9_Bit5 ==
    /\ acct.valid => Flag(cpu.status, FLAG_CONSTANT)
    /\ (Serviced \/ (Executed /\ Access(1)[3] \in {169, 0, 64})) =>
         Flag(cpu.status, FLAG_CONSTANT)

\* C10: cpu_step returns LDA #imm = 2, LDA absolute = 4, LDA absolute,X = 4
\* without and 5 with a page cross, BRK = 7, RTI = 6, JMP absolute = 3,
\* JMP indirect = 5.
C10_CycleCounts ==
    Executed =>
        LET opcode == Access(1)[3]
            pc1    == U16(pre.cpu.pc + 1)
            base   == read6502(M, pc1) + 256 * read6502(M, U16(pc1 + 1))
            cross  == U16(base + pre.cpu.x) \div 256 # base \div 256
        IN  /\ opcode = 169 => ret = 2
            /\ opcode = 173 => ret = 4
            /\ opcode = 189 => ret = IF cross THEN 5 ELSE 4
            /\ opcode = 0   => ret = 7
            /\ opcode = 64  => ret = 6
            /\ opcode = 76  => ret = 3
            /\ opcode = 108 => ret = 5

\* status bytes tried as the status an instruction is entered with
StatusInputs == {0, 36, 52, 2, 128, 130, 219, 255}

\* what LDA #imm makes of the entry state e (operand byte v): r is the call's
\* outcome.  Bit 5 is held to "unchanged" where the instruction's code is at
\* hand (fake6502_old.c); the improved core forces it to 1 per section 3.
LdaImmEffect(e, v, r) ==
    /\ r.cpu.a = v
    /\ r.cpu.pc = U16(e.pc + 2)
    /\ r.ret = 2
    /\ Flag(r.cpu.status, FLAG_ZERO) <=> (v = 0)
    /\ Flag(r.cpu.status, FLAG_SIGN) <=> (v \div 128 = 1)
    /\ \A flag \in {FLAG_CARRY, FLAG_INTERRUPT, FLAG_DECIMAL, FLAG_BREAK,
                    FLAG_OVERFLOW} :
          Flag(r.cpu.status, flag) <=> Flag(e.status, flag)
    /\ (core = "old" \/ Flag(e.status, FLAG_CONSTANT)) =>
          (Flag(r.cpu.status, FLAG_CONSTANT) <=> Flag(e.status, FLAG_CONSTANT))
    /\ r.cpu.x = e.x
    /\ r.cpu.y = e.y
    /\ r.cpu.sp = e.sp

\* C11: LDA #imm at any pc, with any operand byte v and any prior status,
\* gives a = v, pc + 2, return value 2, Z iff v = 0, N iff bit 7 of v, and
\* leaves every other status bit, x, y and sp unchanged.
C11_LdaImmediate ==
    /\ (Executed /\ Access(1)[3] = 169) =>
          LdaImmEffect(pre.cpu, Access(2)[3],
                       [cpu |-> cpu, ret |-> ret])
    /\ (given.filled /\ steps = 0 /\ op = "other" /\ cpu.pc = 512 /\ memory_read = "bridge"
          /\ nmi_pending = 0 /\ irq_pending = 0) =>
         \A v \in 0..255, status \in StatusInputs :
            LET m == [M EXCEPT !.mem = Poke(mem, 513, v), !.cpu.status = status]
            IN  LdaImmEffect(m.cpu, v, IF core = "old" THEN cpu_step_old(m)
                                       ELSE cpu_step_new(m))

\* LDA #$42 at 0x0200 on the simple core: a = 0x42, pc = 0x0202, Z = 0, N = 0
C11_Witness ==
    /\ core = "old"
    /\ Executed
    /\ pre.cpu.pc = 512
    /\ Access(1)[3] = 169
    /\ cpu.a = 66
    /\ cpu.pc = 514
    /\ ret = 2
    /\ ~Flag(cpu.status, FLAG_ZERO)
    /\ ~Flag(cpu.status, FLAG_SIGN)

\* every access of a bus log
Accesses(log) == UNION {log[i] : i \in DOMAIN log}

\* pointer operands tried for JMP indirect at 0x020D
PointerInputs == {<<lo, hi>> : lo \in {0, 16, 254, 255}, hi \in {0, 3, 255}}

\* what JMP indirect makes of the entry record m: the pointer p is the word
\* after the opcode; the low byte of the new pc comes from p, the high byte
\* from p + 1, or from the start of p's page when p is 0xnnFF
JmpIndirectEffect(m, r) ==
    LET pc0 == m.cpu.pc
        p   == read6502(m, U16(pc0 + 1)) + 256 * read6502(m, U16(pc0 + 2))
        hi  == IF p % 256 = 255 THEN p - 255 ELSE U16(p + 1)
    IN  /\ r.cpu.pc = read6502(m, p) + 256 * read6502(m, hi)
        /\ {a[2] : a \in Accesses(r.bus)}
             = {pc0, U16(pc0 + 1), U16(pc0 + 2), p, hi}
        /\ \A a \in Accesses(r.bus) : a[1] = "R"

\* C12: JMP indirect (0x6C) with pointer 0xnnFF loads the new pc low byte
\* from 0xnnFF and the high byte from 0xnn00, not from 0x(nn+1)00; with any
\* other pointer p it loads pc from p and p + 1.
C12_JmpIndirect ==
    /\ (Executed /\ Access(1)[3] = 108) =>
          JmpIndirectEffect([cpu |-> pre.cpu, mem |-> mem],
                            [cpu |-> cpu, bus |-> bus])
    /\ (given.filled /\ steps = 0 /\ op = "other" /\ cpu.pc = 525 /\ memory_read = "bridge"
          /\ nmi_pending = 0 /\ irq_pending = 0) =>
         \A ptr \in PointerInputs :
            LET m == [M EXCEPT !.mem = Poke(Poke(mem, 526, ptr[1]), 527, ptr[2])]
            IN  JmpIndirectEffect(m, IF core = "old" THEN cpu_step_old(m)
                                     ELSE cpu_step_new(m))

\* JMP ($03FF) on the simple core: pc = 0x4014, low byte from 0x03FF and high
\* byte from 0x0300 (0x0400 holds 0xA9)
C12_Witness ==
    /\ core = "old"
    /\ Executed
    /\ pre.cpu.pc = 525
    /\ Access(1)[3] = 108
    /\ <<"R", 1023, 20>> \in Accesses(bus)
    /\ <<"R", 768, 64>> \in Accesses(bus)
    /\ Peek(mem, 1024) = 169
    /\ cpu.pc = 16404

\* what one call may do to the latches
LatchStep ==
    /\ irq_pending' \in {0, 1}
    /\ nmi_pending' \in {0, 1}
    /\ (irq_pending = 0 /\ irq_pending' = 1) => cpu_trigger_irq
    /\ (irq_pending = 1 /\ irq_pending' = 0) =>
          \/ cpu_clear_irq
          \/ cpu_reset
          \/ done' = <<"irq">> /\ cpu_step
    /\ (nmi_pending = 0 /\ nmi_pending' = 1) => cpu_trigger_nmi
    /\ (nmi_pending = 1 /\ nmi_pending' = 0) =>
          \/ cpu_reset
          \/ done' = <<"nmi">> /\ cpu_step
    /\ cpu_clear_irq => nmi_pending' = nmi_pending
    /\ cpu_trigger_irq => irq_pending' = 1
    /\ cpu_trigger_nmi => nmi_pending' = 1
    /\ (done' = <<"irq">> /\ cpu_step) => irq_pending' = 0
    /\ (done' = <<"nmi">> /\ cpu_step) => nmi_pending' = 0
    /\ (op' = "step" /\ cpu_step) => Len(done') = 1

\* C13: each latch is one boolean.  irq_pending is set only by
\* cpu_trigger_irq and cleared only by an IRQ service, cpu_clear_irq or
\* cpu_reset; nmi_pending is set only by cpu_trigger_nmi and cleared only by
\* an NMI service or cpu_reset; cpu_clear_irq leaves nmi_pending alone; a
\* trigger of a set latch leaves it set and one service clears it, so any
\* number of triggers before a service cause one service.
C13_Latches == [][LatchStep]_vars

\* an IRQ service that found the latch set and left it clear
C13_Witness ==
    /\ op = "step"
    /\ done = <<"irq">>
    /\ pre.irq = 1
    /\ pre.nmi = 0
    /\ irq_pending = 0

\* what a cpu_reset or cpu_step call does on a bus that is not attached
DetachedStep ==
    (op' \in {"reset", "step"} /\ (cpu_reset \/ cpu_step)) =>
        /\ memory_read = "NULL" =>
              \A a \in Accesses(bus') : a[1] = "R" => a[3] = 255
        /\ memory_write = "NULL" => mem' = mem
        /\ op' = "step" => ret' \in 2..8 /\ Len(done') = 1

\* C14: with no read callback attached every bus read of cpu_reset and
\* cpu_step returns 0xFF, with no write callback attached every bus write is
\* discarded (the host memory stays as it was), and both calls still
\* complete: cpu_step returns its cycle count.
C14_Detached == [][DetachedStep]_vars

\* an NMI service with nothing attached: three pushes discarded, the vector
\* read as 0xFFFF
C14_Witness ==
    /\ memory_read = "NULL"
    /\ memory_write = "NULL"
    /\ op = "step"
    /\ done = <<"nmi">>
    /\ \E a \in Accesses(bus) : a[1] = "W" /\ Peek(mem, a[2]) # a[3]
    /\ cpu.pc = 65535
    /\ ret = 7

\* the opcodes the switch of fake6502_old.c has a case for
Implemented == {0, 76, 108, 169, 234, 64}

\* Operand bytes that follow an opcode, by the 6502's addressing-mode
\* grouping of the opcode bits aaabbbcc: bbb selects the mode within the
\* column cc.
OperandBytes(opcode) ==
    LET bbb == (opcode \div 4) % 8
        cc  == opcode % 4
    IN  CASE bbb \in {3, 7} -> 2                               \* absolute, absolute,X
          [] bbb \in {1, 5} -> 1                               \* zero page, zero page,X
          [] bbb = 4 -> IF cc = 2 THEN 0 ELSE 1                \* relative, (indirect),Y
          [] bbb = 6 -> IF cc \in {1, 3} THEN 2 ELSE 0         \* absolute,Y / implied
          [] bbb = 2 -> IF cc \in {1, 3} THEN 1 ELSE 0         \* immediate / implied
          [] bbb = 0 -> IF opcode = 32 THEN 2                  \* JSR absolute
                        ELSE IF cc = 0 /\ opcode < 128 THEN 0  \* BRK, RTI, RTS
                        ELSE 1                                 \* immediate, (indirect,X)

\* C15: an opcode the core does not implement is a fixed-cost no-op: cpu_step
\* returns 2, adds 2 to cycles, advances pc (modulo 2^16) past the opcode and
\* the operand bytes of its addressing mode, writes nothing on the bus and
\* leaves a, x, y, sp, status and both latches unchanged.  Stated for the
\* core whose decoder is at hand, fake6502_old.c.
C15_UnimplementedNoOp ==
    (core = "old" /\ Executed /\ Access(1)[3] \notin Implemented) =>
        LET opcode == Access(1)[3]
        IN  /\ ret = 2
            /\ cpu.cycles = Add64(pre.cpu.cycles, 2)
            /\ cpu.pc = U16(pre.cpu.pc + 1 + OperandBytes(opcode))
            /\ \A a \in Accesses(bus) : a[1] = "R"
            /\ cpu.a = pre.cpu.a
            /\ cpu.x = pre.cpu.x
            /\ cpu.y = pre.cpu.y
            /\ cpu.sp = pre.cpu.sp
            /\ cpu.status = pre.cpu.status
            /\ irq_pending = pre.irq
            /\ nmi_pending = pre.nmi

\* a call made through one emulator object leaves what the other objects
\* hold as it was
Isolated ==
    \A i \in hosts :
        caller' # i =>
            UNCHANGED <<cpu, irq_pending, nmi_pending, memory_read, memory_write>>

\* C16: emulator instances are isolated: the registers, cycle counter,
\* interrupt latches and memory callbacks of one instance are never changed
\* by a cpu_reset, cpu_step, trigger, clear, cpu_set_state or
\* cpu_set_memory_callbacks call made on another instance.
C16_Isolation == [][Isolated]_vars

\* cpu_step of the linked core, and the record the call after it works on
Step(m) == IF core = "old" THEN cpu_step_old(m) ELSE cpu_step_new(m)

Then(r) == [cpu |-> r.cpu, mem |-> r.mem, irq |-> r.irq, nmi |-> r.nmi,
            bus |-> <<>>, ret |-> 0, done |-> <<>>]

StackPage == 256..511

\* sp, pc and status are back at what they were in e.  fake6502_old.c pushes
\* and pulls the status byte as it is; the improved core pushes it with
\* Break clear and pulls it with bit 5 forced (sections 3 and 4.6), so there
\* those two bits are compared only when e has them that way.
Restored(e, c) ==
    /\ c.sp = e.sp
    /\ c.pc = e.pc
    /\ IF core = "old" \/ BitAnd(e.status, 48) = FLAG_CONSTANT
       THEN c.status = e.status
       ELSE BitAnd(c.status, 207) = BitAnd(e.status, 207)

\* the writes of a log, and the reads after its opcode fetch, all go to the
\* stack page
PushesInPage(log) ==
    \A a \in Accesses(log) : a[1] = "W" => a[2] \in StackPage

PullsInPage(log) ==
    \A i \in 2..Len(log) : \A a \in log[i] : a[2] \in StackPage

\* C17: over RAM-like memory an NMI or IRQ service (3 pushes) followed by an
\* RTI step (3 pulls) restores sp, pc and status to the values held before
\* the service, for every starting sp including 0x00, 0x01 and 0x02 where sp
\* wraps modulo 256, and every stack access stays within 0x0100..0x01FF.
C17_ServiceRtiRoundTrip ==
    /\ Serviced => PushesInPage(bus)
    /\ (Executed /\ Access(1)[3] = 64) => PullsInPage(bus)
    /\ (Executed /\ Access(1)[3] = 64 /\ prior.valid
          /\ prior.done \in {<<"nmi">>, <<"irq">>}
          /\ memory_read = "bridge" /\ memory_write = "bridge") =>
         Restored(prior.cpu, cpu)
    /\ (given.filled /\ steps = 0 /\ op = "other" /\ cpu.pc = 512
          /\ memory_read = "bridge" /\ memory_write = "bridge") =>
         \A sp \in 0..255, kind \in {"nmi", "irq"} :
            LET handler == Poke(Poke(mem, 65534, Peek(mem, 65530)),
                                65535, Peek(mem, 65531))
                m  == [M EXCEPT !.cpu.sp = sp,
                                !.cpu.status = BitAnd(@, Not8(FLAG_INTERRUPT)),
                                !.nmi = IF kind = "nmi" THEN 1 ELSE 0,
                                !.irq = IF kind = "irq" THEN 1 ELSE 0,
                                !.mem = handler]
                r1 == Step(m)
                r2 == Step(Then(r1))
            IN  /\ r1.done = <<kind>>
                /\ PushesInPage(r1.bus)
                /\ r2.done = <<"instr">>
                /\ \E a \in r2.bus[1] : a[3] = 64
                /\ PullsInPage(r2.bus)
                /\ Restored(m.cpu, r2.cpu)

\* an RTI that follows an NMI service entered with sp = 0x01: the pushes went
\* to 0x0101, 0x0100 and 0x01FF, and sp is back at 0x01
C17_Witness ==
    /\ core = "old"
    /\ Executed
    /\ Access(1)[3] = 64
    /\ prior.valid
    /\ prior.done = <<"nmi">>
    /\ prior.cpu.sp = 1
    /\ memory_read = "bridge"
    /\ memory_write = "bridge"
    /\ Peek(mem, 511) = prior.cpu.status
    /\ cpu.sp = 1
    /\ cpu.pc = prior.cpu.pc

\* the i-th entry of a log is one access of the given kind at the address:
\* it is sequenced after every earlier entry and before every later one
Single(log, i, kind, address) ==
    /\ i \in DOMAIN log
    /\ Cardinality(log[i]) = 1
    /\ \A a \in log[i] : a[1] = kind /\ a[2] = address

\* C18: the bus accesses of one cpu_step happen in program order, each one
\* callback invocation: an interrupt service and BRK write PC high, PC low
\* and status to the stack and then read the vector low byte and then its
\* high byte; RTI reads status, PC low, PC high; an instruction step reads
\* the opcode at pc before anything else.  (With both callbacks attached.)
C18_ProgramOrder ==
    (memory_read = "bridge" /\ memory_write = "bridge") =>
    /\ Serviced =>
          LET v == IF done[1] = "nmi" THEN 65530 ELSE 65534
          IN  /\ Len(bus) = 5
              /\ Single(bus, 1, "W", 256 + pre.cpu.sp)
              /\ Single(bus, 2, "W", 256 + U8(pre.cpu.sp + 255))
              /\ Single(bus, 3, "W", 256 + U8(pre.cpu.sp + 254))
              /\ Single(bus, 4, "R", v)
              /\ Single(bus, 5, "R", v + 1)
    /\ Executed => Single(bus, 1, "R", pre.cpu.pc)
    /\ (Executed /\ Access(1)[3] = 0) =>
          /\ Len(bus) = 6
          /\ Single(bus, 2, "W", 256 + pre.cpu.sp)
          /\ Single(bus, 3, "W", 256 + U8(pre.cpu.sp + 255))
          /\ Single(bus, 4, "W", 256 + U8(pre.cpu.sp + 254))
          /\ Single(bus, 5, "R", 65534)
          /\ Single(bus, 6, "R", 65535)
    /\ (Executed /\ Access(1)[3] = 64) =>
          /\ Len(bus) = 4
          /\ Single(bus, 2, "R", 256 + U8(pre.cpu.sp + 1))
          /\ Single(bus, 3, "R", 256 + U8(pre.cpu.sp + 2))
          /\ Single(bus, 4, "R", 256 + U8(pre.cpu.sp + 3))
          /\ cpu.pc = Access(3)[3] + 256 * Access(4)[3]
          /\ BitAnd(cpu.status, 207) = BitAnd(Access(2)[3], 207)

\* what BRK fetched at e.pc makes of the entry state e: r is the outcome
\* (its log in r.bus, the memory it leaves in r.mem)
BrkEffect(e, r) ==
    LET back == U16(e.pc + 2)
    IN  /\ Len(r.bus) >= 4
        /\ r.bus[2] = {<<"W", 256 + e.sp, back \div 256>>}
        /\ r.bus[3] = {<<"W", 256 + U8(e.sp + 255), back % 256>>}
        /\ \A a \in r.bus[4] :
              /\ a[1] = "W"
              /\ a[2] = 256 + U8(e.sp + 254)
              /\ Flag(a[3], FLAG_BREAK)
              /\ BitAnd(a[3], 207) = BitAnd(e.status, 207)
        /\ Cardinality(r.bus[4]) = 1
        /\ r.cpu.sp = U8(e.sp + 253)
        /\ Flag(r.cpu.status, FLAG_INTERRUPT)
        /\ Flag(r.cpu.status, FLAG_BREAK) <=> Flag(e.status, FLAG_BREAK)
        /\ r.cpu.pc = read6502_word(r, 65534)

\* C19: BRK fetched at p pushes the return address p + 2 (high byte, then
\* low byte) and then the status byte with Break set, sets InterruptDisable,
\* loads pc from 0xFFFE/0xFFFF and leaves the Break bit of the live status
\* register as it was; an RTI that follows over RAM-like memory resumes at
\* p + 2 with sp restored.
C19_BrkRti ==
    /\ (Executed /\ Access(1)[3] = 0) =>
          BrkEffect(pre.cpu, [cpu |-> cpu, bus |-> bus, mem |-> mem])
    /\ (Executed /\ Access(1)[3] = 64 /\ prior.valid
          /\ prior.done = <<"instr">>
          /\ (\A a \in prior.bus[1] : a[3] = 0)
          /\ memory_read = "bridge" /\ memory_write = "bridge") =>
         /\ cpu.pc = U16(prior.cpu.pc + 2)
         /\ cpu.sp = prior.cpu.sp
    /\ (given.filled /\ steps = 0 /\ op = "other" /\ cpu.pc = 520
          /\ memory_read = "bridge" /\ memory_write = "bridge"
          /\ nmi_pending = 0 /\ irq_pending = 0) =>
         \A sp \in 0..255 :
            LET handler == Poke(Poke(mem, 65534, Peek(mem, 65530)),
                                65535, Peek(mem, 65531))
                m  == [M EXCEPT !.cpu.sp = sp, !.mem = handler]
                r1 == Step(m)
                r2 == Step(Then(r1))
            IN  /\ BrkEffect(m.cpu, r1)
                /\ r1.ret = 7
                /\ \E a \in r2.bus[1] : a[3] = 64
                /\ r2.cpu.pc = 522
                /\ r2.cpu.sp = sp

\* an RTI that follows a BRK on the simple core over RAM: back at p + 2
C19_Witness ==
    /\ core = "old"
    /\ Executed
    /\ Access(1)[3] = 64
    /\ prior.valid
    /\ prior.done = <<"instr">>
    /\ <<"R", prior.cpu.pc, 0>> \in prior.bus[1]
    /\ memory_read = "bridge"
    /\ memory_write = "bridge"
    /\ cpu.pc = U16(prior.cpu.pc + 2)
    /\ cpu.sp = prior.cpu.sp
    /\ Flag(cpu.status, FLAG_BREAK)

\* what each call other than cpu_step and cpu_reset may change
Latches == <<irq_pending, nmi_pending>>

Registers == cpu

Hooks == <<memory_read, memory_write>>

NonStepping ==
    /\ (cpu_get_state \/ cpu_is_irq_pending \/ cpu_is_nmi_pending) =>
          /\ UNCHANGED <<Registers, Latches, Hooks, mem>>
          /\ bus' = <<>>
    /\ cpu_is_irq_pending => ret' = irq_pending
    /\ cpu_is_nmi_pending => ret' = nmi_pending
    /\ cpu_trigger_irq =>
          /\ UNCHANGED <<Registers, nmi_pending, Hooks, mem>>
          /\ bus' = <<>>
    /\ cpu_trigger_nmi =>
          /\ UNCHANGED <<Registers, irq_pending, Hooks, mem>>
          /\ bus' = <<>>
    /\ cpu_clear_irq =>
          /\ UNCHANGED <<Registers, nmi_pending, Hooks, mem>>
          /\ bus' = <<>>
    /\ cpu_set_state =>
          /\ UNCHANGED <<Latches, Hooks, mem>>
          /\ bus' = <<>>
          /\ given' = given => UNCHANGED Registers
    /\ (cpu_get_state /\ ~out'.filled) =>
          UNCHANGED <<Registers, Latches, Hooks, mem>>

\* C20: the calls that do not step have disjoint effects: cpu_get_state,
\* cpu_is_irq_pending and cpu_is_nmi_pending change nothing; cpu_trigger_irq,
\* cpu_trigger_nmi and cpu_clear_irq change their own latch only, never a
\* register or cycles; cpu_set_state changes the architectural fields only,
\* never a latch; none of them reads or writes the bus; cpu_get_state and
\* cpu_set_state with a NULL pointer change nothing.
C20_NonStepping == [][NonStepping]_vars

\* a snapshot taken while both latches are set, after cpu_set_state: the
\* registers are the ones set, the latches still set
C20_Witness ==
    /\ op = "other"
    /\ out.filled
    /\ given.filled
    /\ out.state.pc = given.state.pc
    /\ cpu.pc = given.state.pc
    /\ irq_pending = 1
    /\ nmi_pending = 1

====
